---- MODULE Spec2Model ----
(***************************************************************************)
(* Shared / weak ownership handles of src/shared.h and src/weak.h.         *)
(*                                                                         *)
(* The state is the heap of control blocks (cb), the SharedPtr objects     *)
(* (sp) and WeakPtr objects (wp) of the calling code, and the last call    *)
(* with what it returned (op).  Every public operation of SharedPtr and    *)
(* WeakPtr is one action; the counter operations of ControlBlockBase are   *)
(* operators on the heap of control blocks that the actions call exactly   *)
(* where the code calls them.                                              *)
(*                                                                         *)
(* Spec is the calling code working on handles it owns; there the payloads *)
(* are plain objects: their destructor touches no handle.  RoundTripSpec   *)
(* is Spec with a record of one demotion (rt).  IntrusiveSpec is the       *)
(* calling code working on the IntrusivePtr objects (ip) of                *)
(* src/intrusive.h and the reference-counted objects they point at (obj).  *)
(* PayloadSpec is the calling code working on payloads that own handles    *)
(* themselves (member); the undefined behaviour a call executes is kept in *)
(* ub.                                                                     *)
(***************************************************************************)
EXTENDS Integers, Sequences, FiniteSets, TLC

\* ------------------------------------------------------------------ bounds
\* control blocks that exist at the same time
MaxBlocks == 2
\* SharedPtr objects of the calling code that exist at the same time
NumShared == 2
\* WeakPtr objects of the calling code that exist at the same time
NumWeak == 2
\* payload addresses the calling code passes in: 1..MaxAddr
MaxAddr == 1
\* reference-counted objects that exist at the same time
MaxObjects == 2
\* IntrusivePtr objects of the calling code that exist at the same time
NumIntrusive == 3

\* ------------------------------------------------------------ basic values
nullptr == 0

\* size_t arithmetic wraps; the modulus is the largest power of two the model
\* checker's integers hold (the counters of a bounded run stay far below it,
\* a decrement of 0 wraps to SizeModulus - 1)
SizeModulus == 2^30

Inc(c) == (c + 1) % SizeModulus

Dec(c) == (c - 1) % SizeModulus

SharedIds == 1..NumShared

WeakIds == 1..NumWeak

BlockIds == 1..MaxBlocks

IntrusiveIds == 1..NumIntrusive

\* addresses of reference-counted objects
ObjectIds == 1..MaxObjects

\* addresses of separately allocated payloads and of sub-objects
HeapAddrs == 1..MaxAddr

\* ObjectControlBlock::GetDataPtr: the address of the storage inside block b
GetDataPtr(b) == MaxAddr + b

VARIABLES cb, sp, wp, op

\* the demotion RoundTripSpec follows: the WeakPtr made, and the SharedPtr's
\* payload pointer and block at that moment (an observation of the run, no
\* code reads it)
VARIABLE rt

\* src/intrusive.h: the memory of the reference-counted objects and the
\* IntrusivePtr objects of the calling code
VARIABLES obj, ip

intrusiveVars == <<obj, ip>>

\* payloads that own handles: member[b] are the handles stored in the payload
\* that block b manages, a WeakPtr `self` and a SharedPtr `next` declared in
\* this order; ub is the undefined behaviour the run has executed
VARIABLES member, ub

payloadVars == <<member, ub>>

vars == <<cb, sp, wp, op, rt, obj, ip, member, ub>>

\* ---------------------------------------------------------- control blocks
\* cb[b] is the memory at block address b.  mem tells whether a block lives
\* there ("block") or the memory is free; zero_calls counts the calls of
\* OnZeroReferences and deletes the executions of `delete this` on the block
\* that lives or last lived there: both are observations of the run, no code
\* reads them.

\* memory no block was allocated in yet
FreeMemory ==
    [mem |-> "free", kind |-> "none", ref_count_ |-> 0, weak_count_ |-> 0,
     data_ptr_ |-> nullptr, zero_calls |-> 0, deletes |-> 0]

\* ControlBlockBase's member initialisers and PtrControlBlock's constructor
NewPtrControlBlock(ptr) ==
    [mem |-> "block", kind |-> "Ptr", ref_count_ |-> 1, weak_count_ |-> 0,
     data_ptr_ |-> ptr, zero_calls |-> 0, deletes |-> 0]

\* ObjectControlBlock's constructor: the payload lives in the block's storage
NewObjectControlBlock(b) ==
    [mem |-> "block", kind |-> "Object", ref_count_ |-> 1, weak_count_ |-> 0,
     data_ptr_ |-> GetDataPtr(b), zero_calls |-> 0, deletes |-> 0]

\* operator new: the allocator hands out any free memory, also the memory of a
\* block released a moment ago
FreeAddrs(B) == {b \in BlockIds : B[b].mem = "free"}

GetCount(B, b) == B[b].ref_count_

IncrementStrong(B, b) == [B EXCEPT ![b].ref_count_ = Inc(@)]

IncrementWeak(B, b) == [B EXCEPT ![b].weak_count_ = Inc(@)]

\* PtrControlBlock: delete data_ptr_; ObjectControlBlock: GetDataPtr()->~T()
OnZeroReferences(B, b) == [B EXCEPT ![b].zero_calls = @ + 1]

\* delete this: the memory goes back to the allocator; of the block only the
\* counters, as the code left them, and the observations stay on record
DeleteThis(B, b) ==
    [B EXCEPT ![b].mem = "free", ![b].kind = "none", ![b].data_ptr_ = nullptr,
              ![b].deletes = @ + 1]

\* variant: the payload is torn down only together with the block
DecrementStrongTeardownWithBlock(B, b) ==
    LET B1 == [B EXCEPT ![b].ref_count_ = Dec(@)]
    IN  IF B1[b].ref_count_ = 0 /\ B1[b].weak_count_ = 0
        THEN DeleteThis(OnZeroReferences(B1, b), b)
        ELSE B1

\* variant: the block is released without a look at the weak count
DecrementStrongDeletesAlways(B, b) ==
    LET B1 == [B EXCEPT ![b].ref_count_ = Dec(@)]
    IN  IF B1[b].ref_count_ = 0
        THEN DeleteThis(OnZeroReferences(B1, b), b)
        ELSE B1

DecrementStrong(B, b) ==
    LET B1 == [B EXCEPT ![b].ref_count_ = Dec(@)]
    IN  IF B1[b].ref_count_ = 0
        THEN LET B2 == OnZeroReferences(B1, b)
             IN  IF B2[b].weak_count_ = 0 THEN DeleteThis(B2, b) ELSE B2
        ELSE B1

\* variant: the last weak reference releases the block without a look at the
\* strong count
DecrementWeakDeletesAlways(B, b) ==
    LET B1 == [B EXCEPT ![b].weak_count_ = Dec(@)]
    IN  IF B1[b].weak_count_ = 0 THEN DeleteThis(B1, b) ELSE B1

\* variant: the last weak reference leaves the block allocated
DecrementWeakNoDelete(B, b) == [B EXCEPT ![b].weak_count_ = Dec(@)]

DecrementWeak(B, b) ==
    LET B1 == [B EXCEPT ![b].weak_count_ = Dec(@)]
    IN  IF B1[b].weak_count_ = 0 /\ B1[b].ref_count_ = 0
        THEN DeleteThis(B1, b)
        ELSE B1

\* `if (control_block_) control_block_->DecrementStrong();`
ReleaseStrong(B, b) == IF b # nullptr THEN DecrementStrong(B, b) ELSE B

\* `if (control_block_) control_block_->IncrementStrong();`
RetainStrong(B, b) == IF b # nullptr THEN IncrementStrong(B, b) ELSE B

\* `if (observe_cb_) observe_cb_->DecrementWeak();`
ReleaseWeak(B, b) == IF b # nullptr THEN DecrementWeak(B, b) ELSE B

\* `if (observe_cb_) observe_cb_->IncrementWeak();`
RetainWeak(B, b) == IF b # nullptr THEN IncrementWeak(B, b) ELSE B

\* ------------------------------------------------------------------ handles
\* a SharedPtr object: alive between its constructor and its destructor
SharedObj(p, c) == [alive |-> TRUE, data_ptr_ |-> p, control_block_ |-> c]

\* the place of a SharedPtr that is not constructed
NoShared == [alive |-> FALSE, data_ptr_ |-> nullptr, control_block_ |-> nullptr]

WeakObj(p, c) == [alive |-> TRUE, observe_data_ptr_ |-> p, observe_cb_ |-> c]

NoWeak == [alive |-> FALSE, observe_data_ptr_ |-> nullptr, observe_cb_ |-> nullptr]

\* a new object takes the lowest place that holds none (the places are
\* interchangeable)
NewShared(s) == ~sp[s].alive /\ \A t \in 1..(s - 1) : sp[t].alive

NewWeak(w) == ~wp[w].alive /\ \A t \in 1..(w - 1) : wp[t].alive

\* the last call: its name and what the calling code got back from it (the
\* value an observer returned, the exception a constructor left with, "void"
\* otherwise)
Call(name, ret) == [name |-> name, ret |-> ret]

\* payload addresses under the management of a block that has not torn its
\* payload down: `new T` never returns one of them
Managed == {cb[b].data_ptr_ : b \in {x \in BlockIds : cb[x].mem = "block" /\ cb[x].zero_calls = 0}}

\* what the calling code passes to a raw-pointer constructor: the result of a
\* `new T`, or a null pointer
RawArgs == {nullptr} \cup (HeapAddrs \ Managed)

\* what it passes to the aliasing constructor: the address of an object or of
\* a sub-object
AliasArgs == HeapAddrs

\* every pointer value the calling code passes to some call
PtrArgs == {nullptr} \cup HeapAddrs \cup {GetDataPtr(b) : b \in BlockIds}

\* no demotion is followed
NoRoundTrip == [w |-> 0, x |-> nullptr, b |-> nullptr]

\* obj[o] is the memory at object address o; destroys counts the calls of
\* Deleter::Destroy on the object that lives or last lived there (an
\* observation of the run, no code reads it)
FreeObject == [mem |-> "free", count_ |-> 0, destroys |-> 0]

\* `new T`: SimpleCounter's member initialiser count_ = 0
NewObject == [mem |-> "object", count_ |-> 0, destroys |-> 0]

\* an IntrusivePtr object: alive between its constructor and its destructor
IntrusiveObj(p) == [alive |-> TRUE, data_ptr_ |-> p]

\* the place of an IntrusivePtr that is not constructed
NoIntrusive == [alive |-> FALSE, data_ptr_ |-> nullptr]

\* the members of a payload that is not constructed
NoMembers == [self |-> NoWeak, next |-> NoShared]

\* the members of a new payload: WeakPtr() and SharedPtr()
NewMembers == [self |-> WeakObj(nullptr, nullptr), next |-> SharedObj(nullptr, nullptr)]

Init ==
    /\ cb = [b \in BlockIds |-> FreeMemory]
    /\ sp = [s \in SharedIds |-> NoShared]
    /\ wp = [w \in WeakIds |-> NoWeak]
    /\ op = Call("none", "void")
    /\ rt = NoRoundTrip
    /\ obj = [o \in ObjectIds |-> FreeObject]
    /\ ip = [i \in IntrusiveIds |-> NoIntrusive]
    /\ member = [b \in BlockIds |-> NoMembers]
    /\ ub = {}

\* -------------------------------------------------------- SharedPtr: create
\* SharedPtr(), SharedPtr(std::nullptr_t)
SharedDefault(s) ==
    /\ NewShared(s)
    /\ sp' = [sp EXCEPT ![s] = SharedObj(nullptr, nullptr)]
    /\ op' = Call("SharedDefault", "void")
    /\ UNCHANGED <<cb, wp>>

\* explicit SharedPtr(T* ptr), SharedPtr(Y* ptr)
SharedFromRaw(s, ptr) ==
    /\ NewShared(s)
    /\ ptr \in RawArgs
    /\ \E control_block \in FreeAddrs(cb) :
           /\ cb' = [cb EXCEPT ![control_block] = NewPtrControlBlock(ptr)]
           /\ sp' = [sp EXCEPT ![s] = SharedObj(ptr, control_block)]
    /\ op' = Call("SharedFromRaw", "void")
    /\ UNCHANGED wp

\* MakeShared<T>(args...)
MakeShared(s) ==
    /\ NewShared(s)
    /\ \E control_block \in FreeAddrs(cb) :
           /\ cb' = [cb EXCEPT ![control_block] = NewObjectControlBlock(control_block)]
           /\ sp' = [sp EXCEPT ![s] = SharedObj(GetDataPtr(control_block), control_block)]
    /\ op' = Call("MakeShared", "void")
    /\ UNCHANGED wp

\* variant: the copy constructor takes no strong reference
SharedCopyNoRetain(s, other) ==
    /\ NewShared(s)
    /\ sp[other].alive
    /\ sp' = [sp EXCEPT ![s] = SharedObj(sp[other].data_ptr_, sp[other].control_block_)]
    /\ op' = Call("SharedCopy", "void")
    /\ UNCHANGED <<cb, wp>>

\* SharedPtr(const SharedPtr& other), SharedPtr(const SharedPtr<Y>& other)
SharedCopy(s, other) ==
    /\ NewShared(s)
    /\ sp[other].alive
    /\ sp' = [sp EXCEPT ![s] = SharedObj(sp[other].data_ptr_, sp[other].control_block_)]
    /\ cb' = RetainStrong(cb, sp[other].control_block_)
    /\ op' = Call("SharedCopy", "void")
    /\ UNCHANGED wp

\* variant: the move constructor leaves the source as it was
SharedMoveKeepsSource(s, other) ==
    /\ NewShared(s)
    /\ sp[other].alive
    /\ sp' = [sp EXCEPT ![s] = SharedObj(sp[other].data_ptr_, sp[other].control_block_)]
    /\ op' = Call("SharedMove", "void")
    /\ UNCHANGED <<cb, wp>>

\* SharedPtr(SharedPtr&& other), SharedPtr(SharedPtr<Y>&& other)
SharedMove(s, other) ==
    /\ NewShared(s)
    /\ sp[other].alive
    /\ sp' = [sp EXCEPT ![s] = SharedObj(sp[other].data_ptr_, sp[other].control_block_),
                        ![other] = SharedObj(nullptr, nullptr)]
    /\ op' = Call("SharedMove", "void")
    /\ UNCHANGED <<cb, wp>>

\* variant: the aliasing constructor takes no strong reference
SharedAliasNoRetain(s, other, ptr) ==
    /\ NewShared(s)
    /\ sp[other].alive
    /\ ptr \in AliasArgs
    /\ sp' = [sp EXCEPT ![s] = SharedObj(ptr, sp[other].control_block_)]
    /\ op' = Call("SharedAlias", "void")
    /\ UNCHANGED <<cb, wp>>

\* aliasing constructor SharedPtr(const SharedPtr<Y>& other, T* ptr)
SharedAlias(s, other, ptr) ==
    /\ NewShared(s)
    /\ sp[other].alive
    /\ ptr \in AliasArgs
    /\ sp' = [sp EXCEPT ![s] = SharedObj(ptr, sp[other].control_block_)]
    /\ cb' = RetainStrong(cb, sp[other].control_block_)
    /\ op' = Call("SharedAlias", "void")
    /\ UNCHANGED wp

\* ------------------------------------------------------- SharedPtr: destroy
\* ~SharedPtr()
SharedDestroy(s) ==
    /\ sp[s].alive
    /\ cb' = ReleaseStrong(cb, sp[s].control_block_)
    /\ sp' = [sp EXCEPT ![s] = NoShared]
    /\ op' = Call("SharedDestroy", "void")
    /\ UNCHANGED wp

\* variant: promotion checks the block pointer only, not the strong count
SharedPromoteUnchecked(s, w) ==
    /\ NewShared(s)
    /\ wp[w].alive
    /\ IF wp[w].observe_cb_ = nullptr
       THEN /\ op' = Call("SharedPromote", "BadWeakPtr")
            /\ UNCHANGED <<cb, sp>>
       ELSE /\ cb' = IncrementStrong(cb, wp[w].observe_cb_)
            /\ sp' = [sp EXCEPT ![s] = SharedObj(wp[w].observe_data_ptr_, wp[w].observe_cb_)]
            /\ op' = Call("SharedPromote", "ok")
    /\ UNCHANGED wp

\* SharedPtr(const WeakPtr<T>& other): promotion.  The members are initialised
\* first; when the check throws, the object never comes to life and no
\* destructor runs for it.
SharedPromote(s, w) ==
    /\ NewShared(s)
    /\ wp[w].alive
    /\ IF wp[w].observe_cb_ = nullptr \/ GetCount(cb, wp[w].observe_cb_) = 0
       THEN /\ op' = Call("SharedPromote", "BadWeakPtr")
            /\ UNCHANGED <<cb, sp>>
       ELSE /\ cb' = IncrementStrong(cb, wp[w].observe_cb_)
            /\ sp' = [sp EXCEPT ![s] = SharedObj(wp[w].observe_data_ptr_, wp[w].observe_cb_)]
            /\ op' = Call("SharedPromote", "ok")
    /\ UNCHANGED wp

\* -------------------------------------------------------- SharedPtr: assign
\* variant: copy assignment without the test for self-assignment
SharedCopyAssignNoSelfTest(s, other) ==
    /\ sp[s].alive
    /\ sp[other].alive
    /\ cb' = RetainStrong(ReleaseStrong(cb, sp[s].control_block_), sp[other].control_block_)
    /\ sp' = [sp EXCEPT ![s] = SharedObj(sp[other].data_ptr_, sp[other].control_block_)]
    /\ op' = Call("SharedCopyAssign", "void")
    /\ UNCHANGED wp

\* operator=(const SharedPtr& other)
SharedCopyAssign(s, other) ==
    /\ sp[s].alive
    /\ sp[other].alive
    /\ IF other = s
       THEN UNCHANGED <<cb, sp>>
       ELSE /\ cb' = RetainStrong(ReleaseStrong(cb, sp[s].control_block_),
                                  sp[other].control_block_)
            /\ sp' = [sp EXCEPT ![s] = SharedObj(sp[other].data_ptr_,
                                                 sp[other].control_block_)]
    /\ op' = Call("SharedCopyAssign", "void")
    /\ UNCHANGED wp

\* variant: move assignment written as an exchange of the two handles
SharedMoveAssignBySwap(s, other) ==
    /\ sp[s].alive
    /\ sp[other].alive
    /\ sp' = [sp EXCEPT ![s] = sp[other], ![other] = sp[s]]
    /\ op' = Call("SharedMoveAssign", "void")
    /\ UNCHANGED <<cb, wp>>

\* operator=(SharedPtr&& other)
SharedMoveAssign(s, other) ==
    /\ sp[s].alive
    /\ sp[other].alive
    /\ IF other = s
       THEN UNCHANGED <<cb, sp>>
       ELSE /\ cb' = ReleaseStrong(cb, sp[s].control_block_)
            /\ sp' = [sp EXCEPT ![s] = SharedObj(sp[other].data_ptr_,
                                                 sp[other].control_block_),
                                ![other] = SharedObj(nullptr, nullptr)]
    /\ op' = Call("SharedMoveAssign", "void")
    /\ UNCHANGED wp

\* ----------------------------------------------------- SharedPtr: modifiers
\* variant: Reset() gives the reference up and keeps the block pointer
SharedResetKeepsBlock(s) ==
    /\ sp[s].alive
    /\ cb' = ReleaseStrong(cb, sp[s].control_block_)
    /\ sp' = [sp EXCEPT ![s].data_ptr_ = nullptr]
    /\ op' = Call("SharedReset", "void")
    /\ UNCHANGED wp

\* Reset()
SharedReset(s) ==
    /\ sp[s].alive
    /\ cb' = ReleaseStrong(cb, sp[s].control_block_)
    /\ sp' = [sp EXCEPT ![s] = SharedObj(nullptr, nullptr)]
    /\ op' = Call("SharedReset", "void")
    /\ UNCHANGED wp

\* Reset(Y* ptr): the calling code passes the result of a `new T`, a null
\* pointer, or the pointer the handle already returns from Get()
SharedResetPtr(s, ptr) ==
    /\ sp[s].alive
    /\ ptr \in RawArgs \cup {sp[s].data_ptr_}
    /\ IF sp[s].data_ptr_ = ptr
       THEN UNCHANGED <<cb, sp>>
       ELSE IF ptr # nullptr
            THEN LET released == ReleaseStrong(cb, sp[s].control_block_)
                 IN  \E control_block \in FreeAddrs(released) :
                         /\ cb' = [released EXCEPT ![control_block] = NewPtrControlBlock(ptr)]
                         /\ sp' = [sp EXCEPT ![s] = SharedObj(ptr, control_block)]
            ELSE /\ cb' = ReleaseStrong(cb, sp[s].control_block_)
                 /\ sp' = [sp EXCEPT ![s] = SharedObj(nullptr, nullptr)]
    /\ op' = Call("SharedResetPtr", "void")
    /\ UNCHANGED wp

\* Swap(SharedPtr& other)
SharedSwap(s, other) ==
    /\ sp[s].alive
    /\ sp[other].alive
    /\ sp' = [sp EXCEPT ![s] = sp[other], ![other] = sp[s]]
    /\ op' = Call("SharedSwap", "void")
    /\ UNCHANGED <<cb, wp>>

\* ----------------------------------------------------- SharedPtr: observers
Get(s) == sp[s].data_ptr_

UseCount(s) ==
    IF sp[s].control_block_ # nullptr THEN GetCount(cb, sp[s].control_block_) ELSE 0

\* explicit operator bool()
OperatorBool(s) == sp[s].data_ptr_ # nullptr

\* variant: two handles are equal when they hold the same control block
OperatorEqByBlock(left, right) == sp[left].control_block_ = sp[right].control_block_

\* operator==(const SharedPtr<T>& left, const SharedPtr<U>& right)
OperatorEq(left, right) == Get(left) = Get(right)

SharedGet(s) ==
    /\ sp[s].alive
    /\ op' = Call("Get", Get(s))
    /\ UNCHANGED <<cb, sp, wp>>

SharedUseCount(s) ==
    /\ sp[s].alive
    /\ op' = Call("UseCount", UseCount(s))
    /\ UNCHANGED <<cb, sp, wp>>

SharedBool(s) ==
    /\ sp[s].alive
    /\ op' = Call("OperatorBool", OperatorBool(s))
    /\ UNCHANGED <<cb, sp, wp>>

SharedEq(left, right) ==
    /\ sp[left].alive
    /\ sp[right].alive
    /\ op' = Call("OperatorEq", OperatorEq(left, right))
    /\ UNCHANGED <<cb, sp, wp>>

\* ---------------------------------------------------------- WeakPtr: create
\* WeakPtr()
WeakDefault(w) ==
    /\ NewWeak(w)
    /\ wp' = [wp EXCEPT ![w] = WeakObj(nullptr, nullptr)]
    /\ op' = Call("WeakDefault", "void")
    /\ UNCHANGED <<cb, sp>>

\* WeakPtr(const WeakPtr& other), WeakPtr(const WeakPtr<Y>& other)
WeakCopy(w, other) ==
    /\ NewWeak(w)
    /\ wp[other].alive
    /\ wp' = [wp EXCEPT ![w] = WeakObj(wp[other].observe_data_ptr_, wp[other].observe_cb_)]
    /\ cb' = RetainWeak(cb, wp[other].observe_cb_)
    /\ op' = Call("WeakCopy", "void")
    /\ UNCHANGED sp

\* WeakPtr(WeakPtr&& other)
WeakMove(w, other) ==
    /\ NewWeak(w)
    /\ wp[other].alive
    /\ wp' = [wp EXCEPT ![w] = WeakObj(wp[other].observe_data_ptr_, wp[other].observe_cb_),
                        ![other] = WeakObj(nullptr, nullptr)]
    /\ op' = Call("WeakMove", "void")
    /\ UNCHANGED <<cb, sp>>

\* variant: demotion stores the payload pointer of the block, not the pointer
\* of the SharedPtr
WeakFromSharedStoresPayload(w, s) ==
    /\ NewWeak(w)
    /\ sp[s].alive
    /\ wp' = [wp EXCEPT ![w] = WeakObj(IF sp[s].control_block_ # nullptr
                                       THEN cb[sp[s].control_block_].data_ptr_
                                       ELSE nullptr,
                                       sp[s].control_block_)]
    /\ cb' = RetainWeak(cb, sp[s].control_block_)
    /\ op' = Call("WeakFromShared", "void")
    /\ UNCHANGED sp

\* variant: demotion takes a strong reference instead of a weak one
WeakFromSharedTakesStrong(w, s) ==
    /\ NewWeak(w)
    /\ sp[s].alive
    /\ wp' = [wp EXCEPT ![w] = WeakObj(sp[s].data_ptr_, sp[s].control_block_)]
    /\ cb' = RetainStrong(cb, sp[s].control_block_)
    /\ op' = Call("WeakFromShared", "void")
    /\ UNCHANGED sp

\* WeakPtr(const SharedPtr<T>& other): demotion
WeakFromShared(w, s) ==
    /\ NewWeak(w)
    /\ sp[s].alive
    /\ wp' = [wp EXCEPT ![w] = WeakObj(sp[s].data_ptr_, sp[s].control_block_)]
    /\ cb' = RetainWeak(cb, sp[s].control_block_)
    /\ op' = Call("WeakFromShared", "void")
    /\ UNCHANGED sp

\* ---------------------------------------------------------- WeakPtr: assign
\* operator=(const WeakPtr& other)
WeakCopyAssign(w, other) ==
    /\ wp[w].alive
    /\ wp[other].alive
    /\ IF other = w
       THEN UNCHANGED <<cb, wp>>
       ELSE /\ cb' = RetainWeak(ReleaseWeak(cb, wp[w].observe_cb_), wp[other].observe_cb_)
            /\ wp' = [wp EXCEPT ![w] = WeakObj(wp[other].observe_data_ptr_,
                                               wp[other].observe_cb_)]
    /\ op' = Call("WeakCopyAssign", "void")
    /\ UNCHANGED sp

\* operator=(WeakPtr&& other)
WeakMoveAssign(w, other) ==
    /\ wp[w].alive
    /\ wp[other].alive
    /\ IF other = w
       THEN UNCHANGED <<cb, wp>>
       ELSE /\ cb' = ReleaseWeak(cb, wp[w].observe_cb_)
            /\ wp' = [wp EXCEPT ![w] = WeakObj(wp[other].observe_data_ptr_,
                                               wp[other].observe_cb_),
                                ![other] = WeakObj(nullptr, nullptr)]
    /\ op' = Call("WeakMoveAssign", "void")
    /\ UNCHANGED sp

\* ------------------------------------------- WeakPtr: destroy and modifiers
\* ~WeakPtr()
WeakDestroy(w) ==
    /\ wp[w].alive
    /\ cb' = ReleaseWeak(cb, wp[w].observe_cb_)
    /\ wp' = [wp EXCEPT ![w] = NoWeak]
    /\ op' = Call("WeakDestroy", "void")
    /\ UNCHANGED sp

\* Reset()
WeakReset(w) ==
    /\ wp[w].alive
    /\ cb' = ReleaseWeak(cb, wp[w].observe_cb_)
    /\ wp' = [wp EXCEPT ![w] = WeakObj(nullptr, nullptr)]
    /\ op' = Call("WeakReset", "void")
    /\ UNCHANGED sp

\* Swap(WeakPtr& other)
WeakSwap(w, other) ==
    /\ wp[w].alive
    /\ wp[other].alive
    /\ wp' = [wp EXCEPT ![w] = wp[other], ![other] = wp[w]]
    /\ op' = Call("WeakSwap", "void")
    /\ UNCHANGED <<cb, sp>>

\* ------------------------------------------------------- WeakPtr: observers
WeakUseCount(w) ==
    IF wp[w].observe_cb_ # nullptr THEN GetCount(cb, wp[w].observe_cb_) ELSE 0

\* variant: a handle counts as expired only when it observes no block
ExpiredIfNoBlock(w) == wp[w].observe_cb_ = nullptr

Expired(w) == WeakUseCount(w) = 0

WeakUseCountCall(w) ==
    /\ wp[w].alive
    /\ op' = Call("WeakUseCount", WeakUseCount(w))
    /\ UNCHANGED <<cb, sp, wp>>

WeakExpired(w) ==
    /\ wp[w].alive
    /\ op' = Call("Expired", Expired(w))
    /\ UNCHANGED <<cb, sp, wp>>

\* variant: Lock() tests the block pointer only, not the strong count
LockUnchecked(w, s) ==
    /\ wp[w].alive
    /\ NewShared(s)
    /\ IF wp[w].observe_cb_ # nullptr
       THEN /\ cb' = IncrementStrong(cb, wp[w].observe_cb_)
            /\ sp' = [sp EXCEPT ![s] = SharedObj(wp[w].observe_data_ptr_, wp[w].observe_cb_)]
       ELSE /\ cb' = cb
            /\ sp' = [sp EXCEPT ![s] = SharedObj(nullptr, nullptr)]
    /\ op' = Call("Lock", "void")
    /\ UNCHANGED wp

\* Lock(): the returned SharedPtr is the object s of the calling code
Lock(w, s) ==
    /\ wp[w].alive
    /\ NewShared(s)
    /\ IF wp[w].observe_cb_ # nullptr /\ GetCount(cb, wp[w].observe_cb_) > 0
       THEN /\ cb' = IncrementStrong(cb, wp[w].observe_cb_)
            /\ sp' = [sp EXCEPT ![s] = SharedObj(wp[w].observe_data_ptr_, wp[w].observe_cb_)]
       ELSE /\ cb' = cb
            /\ sp' = [sp EXCEPT ![s] = SharedObj(nullptr, nullptr)]
    /\ op' = Call("Lock", "void")
    /\ UNCHANGED wp

\* --------------------------------------------------------------------- Next
Next ==
    \/ \E s \in SharedIds : SharedDefault(s)
           /\ UNCHANGED <<rt, intrusiveVars, payloadVars>>
    \/ \E s \in SharedIds, ptr \in PtrArgs : SharedFromRaw(s, ptr)
           /\ UNCHANGED <<rt, intrusiveVars, payloadVars>>
    \/ \E s \in SharedIds : MakeShared(s)
           /\ UNCHANGED <<rt, intrusiveVars, payloadVars>>
    \/ \E s, other \in SharedIds : SharedCopy(s, other)
           /\ UNCHANGED <<rt, intrusiveVars, payloadVars>>
    \/ \E s, other \in SharedIds : SharedMove(s, other)
           /\ UNCHANGED <<rt, intrusiveVars, payloadVars>>
    \/ \E s, other \in SharedIds, ptr \in PtrArgs : SharedAlias(s, other, ptr)
           /\ UNCHANGED <<rt, intrusiveVars, payloadVars>>
    \/ \E s \in SharedIds, w \in WeakIds : SharedPromote(s, w)
           /\ UNCHANGED <<rt, intrusiveVars, payloadVars>>
    \/ \E s, other \in SharedIds : SharedCopyAssign(s, other)
           /\ UNCHANGED <<rt, intrusiveVars, payloadVars>>
    \/ \E s, other \in SharedIds : SharedMoveAssign(s, other)
           /\ UNCHANGED <<rt, intrusiveVars, payloadVars>>
    \/ \E s \in SharedIds : SharedDestroy(s)
           /\ UNCHANGED <<rt, intrusiveVars, payloadVars>>
    \/ \E s \in SharedIds : SharedReset(s)
           /\ UNCHANGED <<rt, intrusiveVars, payloadVars>>
    \/ \E s \in SharedIds, ptr \in PtrArgs : SharedResetPtr(s, ptr)
           /\ UNCHANGED <<rt, intrusiveVars, payloadVars>>
    \/ \E s, other \in SharedIds : SharedSwap(s, other)
           /\ UNCHANGED <<rt, intrusiveVars, payloadVars>>
    \/ \E s \in SharedIds : SharedGet(s)
           /\ UNCHANGED <<rt, intrusiveVars, payloadVars>>
    \/ \E s \in SharedIds : SharedUseCount(s)
           /\ UNCHANGED <<rt, intrusiveVars, payloadVars>>
    \/ \E s \in SharedIds : SharedBool(s)
           /\ UNCHANGED <<rt, intrusiveVars, payloadVars>>
    \/ \E left, right \in SharedIds : SharedEq(left, right)
           /\ UNCHANGED <<rt, intrusiveVars, payloadVars>>
    \/ \E w \in WeakIds : WeakDefault(w)
           /\ UNCHANGED <<rt, intrusiveVars, payloadVars>>
    \/ \E w, other \in WeakIds : WeakCopy(w, other)
           /\ UNCHANGED <<rt, intrusiveVars, payloadVars>>
    \/ \E w, other \in WeakIds : WeakMove(w, other)
           /\ UNCHANGED <<rt, intrusiveVars, payloadVars>>
    \/ \E w \in WeakIds, s \in SharedIds : WeakFromShared(w, s)
           /\ UNCHANGED <<rt, intrusiveVars, payloadVars>>
    \/ \E w, other \in WeakIds : WeakCopyAssign(w, other)
           /\ UNCHANGED <<rt, intrusiveVars, payloadVars>>
    \/ \E w, other \in WeakIds : WeakMoveAssign(w, other)
           /\ UNCHANGED <<rt, intrusiveVars, payloadVars>>
    \/ \E w \in WeakIds : WeakDestroy(w)
           /\ UNCHANGED <<rt, intrusiveVars, payloadVars>>
    \/ \E w \in WeakIds : WeakReset(w)
           /\ UNCHANGED <<rt, intrusiveVars, payloadVars>>
    \/ \E w, other \in WeakIds : WeakSwap(w, other)
           /\ UNCHANGED <<rt, intrusiveVars, payloadVars>>
    \/ \E w \in WeakIds : WeakUseCountCall(w)
           /\ UNCHANGED <<rt, intrusiveVars, payloadVars>>
    \/ \E w \in WeakIds : WeakExpired(w)
           /\ UNCHANGED <<rt, intrusiveVars, payloadVars>>
    \/ \E w \in WeakIds, s \in SharedIds : Lock(w, s)
           /\ UNCHANGED <<rt, intrusiveVars, payloadVars>>

Spec == Init /\ [][Next]_vars

\* ------------------------------------------------------------ round trips
\* the record after a call that did not change the WeakPtr followed: it is
\* dropped once the strong count of the block reached 0
KeptRoundTrip ==
    IF rt.w # 0 /\ cb'[rt.b].ref_count_ = 0 THEN NoRoundTrip ELSE rt

KeepRoundTrip == rt' = KeptRoundTrip

\* a call that assigns to, moves from, swaps, resets or destroys the WeakPtr
\* objects in `changed`
ForgetRoundTrip(changed) ==
    rt' = IF rt.w \in changed THEN NoRoundTrip ELSE KeptRoundTrip

\* WeakPtr w is made from SharedPtr s: this demotion is followed from here
\* on, or the one followed so far still is
FollowRoundTrip(w, s) ==
    \/ /\ sp[s].control_block_ # nullptr
       /\ rt' = [w |-> w, x |-> sp[s].data_ptr_, b |-> sp[s].control_block_]
    \/ KeepRoundTrip

RoundTripNext ==
    \/ \E s \in SharedIds : SharedDefault(s)
           /\ KeepRoundTrip /\ UNCHANGED <<intrusiveVars, payloadVars>>
    \/ \E s \in SharedIds, ptr \in PtrArgs : SharedFromRaw(s, ptr)
           /\ KeepRoundTrip /\ UNCHANGED <<intrusiveVars, payloadVars>>
    \/ \E s \in SharedIds : MakeShared(s)
           /\ KeepRoundTrip /\ UNCHANGED <<intrusiveVars, payloadVars>>
    \/ \E s, other \in SharedIds : SharedCopy(s, other)
           /\ KeepRoundTrip /\ UNCHANGED <<intrusiveVars, payloadVars>>
    \/ \E s, other \in SharedIds : SharedMove(s, other)
           /\ KeepRoundTrip /\ UNCHANGED <<intrusiveVars, payloadVars>>
    \/ \E s, other \in SharedIds, ptr \in PtrArgs : SharedAlias(s, other, ptr)
           /\ KeepRoundTrip /\ UNCHANGED <<intrusiveVars, payloadVars>>
    \/ \E s \in SharedIds, w \in WeakIds : SharedPromote(s, w)
           /\ KeepRoundTrip /\ UNCHANGED <<intrusiveVars, payloadVars>>
    \/ \E s, other \in SharedIds : SharedCopyAssign(s, other)
           /\ KeepRoundTrip /\ UNCHANGED <<intrusiveVars, payloadVars>>
    \/ \E s, other \in SharedIds : SharedMoveAssign(s, other)
           /\ KeepRoundTrip /\ UNCHANGED <<intrusiveVars, payloadVars>>
    \/ \E s \in SharedIds : SharedDestroy(s)
           /\ KeepRoundTrip /\ UNCHANGED <<intrusiveVars, payloadVars>>
    \/ \E s \in SharedIds : SharedReset(s)
           /\ KeepRoundTrip /\ UNCHANGED <<intrusiveVars, payloadVars>>
    \/ \E s \in SharedIds, ptr \in PtrArgs : SharedResetPtr(s, ptr)
           /\ KeepRoundTrip /\ UNCHANGED <<intrusiveVars, payloadVars>>
    \/ \E s, other \in SharedIds : SharedSwap(s, other)
           /\ KeepRoundTrip /\ UNCHANGED <<intrusiveVars, payloadVars>>
    \/ \E s \in SharedIds : SharedGet(s)
           /\ KeepRoundTrip /\ UNCHANGED <<intrusiveVars, payloadVars>>
    \/ \E s \in SharedIds : SharedUseCount(s)
           /\ KeepRoundTrip /\ UNCHANGED <<intrusiveVars, payloadVars>>
    \/ \E s \in SharedIds : SharedBool(s)
           /\ KeepRoundTrip /\ UNCHANGED <<intrusiveVars, payloadVars>>
    \/ \E left, right \in SharedIds : SharedEq(left, right)
           /\ KeepRoundTrip /\ UNCHANGED <<intrusiveVars, payloadVars>>
    \/ \E w \in WeakIds : WeakDefault(w)
           /\ KeepRoundTrip /\ UNCHANGED <<intrusiveVars, payloadVars>>
    \/ \E w, other \in WeakIds : WeakCopy(w, other)
           /\ KeepRoundTrip /\ UNCHANGED <<intrusiveVars, payloadVars>>
    \/ \E w, other \in WeakIds : WeakMove(w, other)
           /\ ForgetRoundTrip({other}) /\ UNCHANGED <<intrusiveVars, payloadVars>>
    \/ \E w \in WeakIds, s \in SharedIds : WeakFromShared(w, s)
           /\ FollowRoundTrip(w, s) /\ UNCHANGED <<intrusiveVars, payloadVars>>
    \/ \E w, other \in WeakIds : WeakCopyAssign(w, other)
           /\ ForgetRoundTrip({w}) /\ UNCHANGED <<intrusiveVars, payloadVars>>
    \/ \E w, other \in WeakIds : WeakMoveAssign(w, other)
           /\ ForgetRoundTrip({w, other}) /\ UNCHANGED <<intrusiveVars, payloadVars>>
    \/ \E w \in WeakIds : WeakDestroy(w)
           /\ ForgetRoundTrip({w}) /\ UNCHANGED <<intrusiveVars, payloadVars>>
    \/ \E w \in WeakIds : WeakReset(w)
           /\ ForgetRoundTrip({w}) /\ UNCHANGED <<intrusiveVars, payloadVars>>
    \/ \E w, other \in WeakIds : WeakSwap(w, other)
           /\ ForgetRoundTrip({w, other}) /\ UNCHANGED <<intrusiveVars, payloadVars>>
    \/ \E w \in WeakIds : WeakUseCountCall(w)
           /\ KeepRoundTrip /\ UNCHANGED <<intrusiveVars, payloadVars>>
    \/ \E w \in WeakIds : WeakExpired(w)
           /\ KeepRoundTrip /\ UNCHANGED <<intrusiveVars, payloadVars>>
    \/ \E w \in WeakIds, s \in SharedIds : Lock(w, s)
           /\ KeepRoundTrip /\ UNCHANGED <<intrusiveVars, payloadVars>>

RoundTripSpec == Init /\ [][RoundTripNext]_vars

\* ------------------------------------------------------------ IntrusivePtr
\* SimpleCounter::IncRef: the value it returns is the new count_
CounterIncRef(c) == Inc(c)

\* SimpleCounter::DecRef: the value it returns is the new count_, and 0 when
\* count_ is 0 already
CounterDecRef(c) == IF c > 0 THEN Dec(c) ELSE 0

\* RefCounted::IncRef
IncRef(O, o) == [O EXCEPT ![o].count_ = CounterIncRef(@)]

\* DefaultDelete::Destroy: delete object
Destroy(O, o) == [O EXCEPT ![o].mem = "free", ![o].destroys = @ + 1]

\* variant: the object is destroyed by every DecRef
DecRefDestroysAlways(O, o) ==
    Destroy([O EXCEPT ![o].count_ = CounterDecRef(@)], o)

\* RefCounted::DecRef
DecRef(O, o) ==
    LET O1 == [O EXCEPT ![o].count_ = CounterDecRef(@)]
    IN  IF O1[o].count_ = 0 THEN Destroy(O1, o) ELSE O1

\* RefCounted::RefCount
RefCount(O, o) == O[o].count_

\* `if (data_ptr_) data_ptr_->DecRef();`
ReleaseObject(O, o) == IF o # nullptr THEN DecRef(O, o) ELSE O

\* `if (data_ptr_) data_ptr_->IncRef();`
RetainObject(O, o) == IF o # nullptr THEN IncRef(O, o) ELSE O

\* operator new: any free memory
FreeObjects(O) == {o \in ObjectIds : O[o].mem = "free"}

\* the objects that exist
LiveObjects == {o \in ObjectIds : obj[o].mem = "object"}

\* what the calling code passes as a T*: a null pointer or a pointer to an
\* object that exists
ObjectArgs == {nullptr} \cup LiveObjects

\* a new object takes the lowest place that holds none
NewIntrusive(i) == ~ip[i].alive /\ \A t \in 1..(i - 1) : ip[t].alive

\* IntrusivePtr(), IntrusivePtr(std::nullptr_t)
IntrusiveDefault(i) ==
    /\ NewIntrusive(i)
    /\ ip' = [ip EXCEPT ![i] = IntrusiveObj(nullptr)]
    /\ op' = Call("IntrusiveDefault", "void")
    /\ UNCHANGED obj

\* IntrusivePtr(T* data_ptr)
IntrusiveFromPtr(i, data_ptr) ==
    /\ NewIntrusive(i)
    /\ data_ptr \in ObjectArgs
    /\ ip' = [ip EXCEPT ![i] = IntrusiveObj(data_ptr)]
    /\ obj' = RetainObject(obj, data_ptr)
    /\ op' = Call("IntrusiveFromPtr", "void")

\* MakeIntrusive<T>(args...): IntrusivePtr<T>(new T(args...))
MakeIntrusive(i) ==
    /\ NewIntrusive(i)
    /\ \E o \in FreeObjects(obj) :
           /\ obj' = RetainObject([obj EXCEPT ![o] = NewObject], o)
           /\ ip' = [ip EXCEPT ![i] = IntrusiveObj(o)]
    /\ op' = Call("MakeIntrusive", "void")

\* IntrusivePtr(const IntrusivePtr& other), IntrusivePtr(const IntrusivePtr<Y>&)
IntrusiveCopy(i, other) ==
    /\ NewIntrusive(i)
    /\ ip[other].alive
    /\ ip' = [ip EXCEPT ![i] = IntrusiveObj(ip[other].data_ptr_)]
    /\ obj' = RetainObject(obj, ip[other].data_ptr_)
    /\ op' = Call("IntrusiveCopy", "void")

\* IntrusivePtr(IntrusivePtr&& other), IntrusivePtr(IntrusivePtr<Y>&& other)
IntrusiveMove(i, other) ==
    /\ NewIntrusive(i)
    /\ ip[other].alive
    /\ ip' = [ip EXCEPT ![i] = IntrusiveObj(ip[other].data_ptr_),
                        ![other] = IntrusiveObj(nullptr)]
    /\ op' = Call("IntrusiveMove", "void")
    /\ UNCHANGED obj



\* operator=(const IntrusivePtr& other)
IntrusiveCopyAssign(i, other) ==
    /\ ip[i].alive
    /\ ip[other].alive
    /\ IF other = i
       THEN UNCHANGED <<obj, ip>>
       ELSE /\ obj' = RetainObject(ReleaseObject(obj, ip[i].data_ptr_), ip[other].data_ptr_)
            /\ ip' = [ip EXCEPT ![i] = IntrusiveObj(ip[other].data_ptr_)]
    /\ op' = Call("IntrusiveCopyAssign", "void")

\* operator=(IntrusivePtr&& other)
IntrusiveMoveAssign(i, other) ==
    /\ ip[i].alive
    /\ ip[other].alive
    /\ IF other = i
       THEN UNCHANGED <<obj, ip>>
       ELSE /\ obj' = ReleaseObject(obj, ip[i].data_ptr_)
            /\ ip' = [ip EXCEPT ![i] = IntrusiveObj(ip[other].data_ptr_),
                                ![other] = IntrusiveObj(nullptr)]
    /\ op' = Call("IntrusiveMoveAssign", "void")

\* ~IntrusivePtr()
IntrusiveDestroy(i) ==
    /\ ip[i].alive
    /\ obj' = ReleaseObject(obj, ip[i].data_ptr_)
    /\ ip' = [ip EXCEPT ![i] = NoIntrusive]
    /\ op' = Call("IntrusiveDestroy", "void")

\* Reset()
IntrusiveReset(i) ==
    /\ ip[i].alive
    /\ obj' = ReleaseObject(obj, ip[i].data_ptr_)
    /\ ip' = [ip EXCEPT ![i] = IntrusiveObj(nullptr)]
    /\ op' = Call("IntrusiveReset", "void")

\* Reset(T* new_ptr): the calling code passes a null pointer, a pointer to an
\* object that exists, or the result of a `new T` evaluated for the call
IntrusiveResetPtr(i, new_ptr) ==
    /\ ip[i].alive
    /\ new_ptr \in ObjectArgs \cup FreeObjects(obj)
    /\ LET allocated == IF new_ptr \in FreeObjects(obj)
                        THEN [obj EXCEPT ![new_ptr] = NewObject]
                        ELSE obj
       IN  IF ip[i].data_ptr_ # new_ptr
           THEN /\ obj' = RetainObject(ReleaseObject(allocated, ip[i].data_ptr_), new_ptr)
                /\ ip' = [ip EXCEPT ![i] = IntrusiveObj(new_ptr)]
           ELSE /\ obj' = allocated
                /\ ip' = ip
    /\ op' = Call("IntrusiveResetPtr", "void")

\* Swap(IntrusivePtr& other)
IntrusiveSwap(i, other) ==
    /\ ip[i].alive
    /\ ip[other].alive
    /\ ip' = [ip EXCEPT ![i] = ip[other], ![other] = ip[i]]
    /\ op' = Call("IntrusiveSwap", "void")
    /\ UNCHANGED obj

\* IntrusivePtr::UseCount
IntrusiveUseCount(i) ==
    IF ip[i].data_ptr_ # nullptr THEN RefCount(obj, ip[i].data_ptr_) ELSE 0

IntrusiveUseCountCall(i) ==
    /\ ip[i].alive
    /\ op' = Call("IntrusiveUseCount", IntrusiveUseCount(i))
    /\ UNCHANGED <<obj, ip>>

\* IntrusivePtr::Get
IntrusiveGet(i) ==
    /\ ip[i].alive
    /\ op' = Call("IntrusiveGet", ip[i].data_ptr_)
    /\ UNCHANGED <<obj, ip>>

IntrusiveNext ==
    \/ \E i \in IntrusiveIds : IntrusiveDefault(i)
           /\ UNCHANGED <<cb, sp, wp, rt, payloadVars>>
    \/ \E i \in IntrusiveIds, data_ptr \in {nullptr} \cup ObjectIds : IntrusiveFromPtr(i, data_ptr)
           /\ UNCHANGED <<cb, sp, wp, rt, payloadVars>>
    \/ \E i \in IntrusiveIds : MakeIntrusive(i)
           /\ UNCHANGED <<cb, sp, wp, rt, payloadVars>>
    \/ \E i, other \in IntrusiveIds : IntrusiveCopy(i, other)
           /\ UNCHANGED <<cb, sp, wp, rt, payloadVars>>
    \/ \E i, other \in IntrusiveIds : IntrusiveMove(i, other)
           /\ UNCHANGED <<cb, sp, wp, rt, payloadVars>>
    \/ \E i, other \in IntrusiveIds : IntrusiveCopyAssign(i, other)
           /\ UNCHANGED <<cb, sp, wp, rt, payloadVars>>
    \/ \E i, other \in IntrusiveIds : IntrusiveMoveAssign(i, other)
           /\ UNCHANGED <<cb, sp, wp, rt, payloadVars>>
    \/ \E i \in IntrusiveIds : IntrusiveDestroy(i)
           /\ UNCHANGED <<cb, sp, wp, rt, payloadVars>>
    \/ \E i \in IntrusiveIds : IntrusiveReset(i)
           /\ UNCHANGED <<cb, sp, wp, rt, payloadVars>>
    \/ \E i \in IntrusiveIds, new_ptr \in {nullptr} \cup ObjectIds : IntrusiveResetPtr(i, new_ptr)
           /\ UNCHANGED <<cb, sp, wp, rt, payloadVars>>
    \/ \E i, other \in IntrusiveIds : IntrusiveSwap(i, other)
           /\ UNCHANGED <<cb, sp, wp, rt, payloadVars>>
    \/ \E i \in IntrusiveIds : IntrusiveUseCountCall(i)
           /\ UNCHANGED <<cb, sp, wp, rt, payloadVars>>
    \/ \E i \in IntrusiveIds : IntrusiveGet(i)
           /\ UNCHANGED <<cb, sp, wp, rt, payloadVars>>

IntrusiveSpec == Init /\ [][IntrusiveNext]_vars

\* ------------------------------------------------- payloads that own handles
\* PayloadSpec is the calling code working on payloads of the type
\*     struct Node { WeakPtr<Node> self; SharedPtr<Node> next; };
\* The destructor of a Node destroys its members, and so the teardown hook of
\* a block calls back into the counters: the counter operations below are
\* DecrementStrong and IncrementStrong followed through these calls.  A run is
\* followed up to the first undefined behaviour it executes; of that call
\* every outcome is a next state.

\* DecrementStrong evaluates `weak_count_ == 0` on a block that `delete this`
\* has released
ReadOfReleasedBlock == "weak_count_ read in a released block"

\* DecrementStrong executes `delete this` on a block already released
DeleteOfReleasedBlock == "delete this on a released block"

\* operator= uses `other` after the payload that holds it was torn down
SourceUsedAfterTeardown == "other used after its destructor"

\* IncrementStrong is called through a pointer to a released block
CountInReleasedBlock == "ref_count_ written in a released block"

\* what a call has made so far of the blocks, of the members of the payloads
\* and of the undefined behaviour executed
Heap(B, M, U) == [cb |-> B, member |-> M, ub |-> U]

\* what reading a destroyed SharedPtr may yield
AnyShared == {SharedObj(p, c) : p \in PtrArgs, c \in {nullptr} \cup BlockIds}

\* `control_block_->IncrementStrong()`
NodeRetainStrong(h, b) ==
    IF b = nullptr
    THEN h
    ELSE [h EXCEPT !.cb = IncrementStrong(h.cb, b),
                   !.ub = IF h.cb[b].mem = "free" THEN @ \cup {CountInReleasedBlock} ELSE @]

\* `if (weak_count_ == 0) { delete this; }` of DecrementStrong, after
\* OnZeroReferences came back.  On a block that is released by then the
\* condition reads released memory and may yield either value: the outcomes
\* are the heaps of this set
DeleteIfUnobserved(h, b) ==
    IF h.cb[b].mem = "free"
    THEN {[h EXCEPT !.ub = @ \cup {ReadOfReleasedBlock}],
          [h EXCEPT !.cb = DeleteThis(h.cb, b),
                    !.ub = @ \cup {ReadOfReleasedBlock, DeleteOfReleasedBlock}]}
    ELSE IF h.cb[b].weak_count_ = 0
         THEN {[h EXCEPT !.cb = DeleteThis(h.cb, b)]}
         ELSE {h}

\* ~WeakPtr() of the member self of the payload of block b
DestroySelf(h, b) ==
    [h EXCEPT !.member[b].self = NoWeak,
              !.cb = ReleaseWeak(h.cb, h.member[b].self.observe_cb_)]

RECURSIVE NodeDecrementStrong(_, _)

\* `if (control_block_) control_block_->DecrementStrong();`: the heaps the
\* call can end with
NodeReleaseStrong(h, b) ==
    IF b # nullptr THEN NodeDecrementStrong(h, b) ELSE {h}

\* ~Node(): the members go in reverse order of declaration, ~SharedPtr() of
\* next and then ~WeakPtr() of self
NodeDestructor(h, b) ==
    LET next == h.member[b].next.control_block_
        h1 == [h EXCEPT !.member[b].next = NoShared]
    IN  {DestroySelf(h2, b) : h2 \in NodeReleaseStrong(h1, next)}

\* PtrControlBlock: delete data_ptr_; ObjectControlBlock: GetDataPtr()->~T()
NodeOnZeroReferences(h, b) ==
    NodeDestructor([h EXCEPT !.cb = OnZeroReferences(h.cb, b)], b)

\* ControlBlockBase::DecrementStrong: the heaps the call can end with
NodeDecrementStrong(h, b) ==
    LET h1 == [h EXCEPT !.cb[b].ref_count_ = Dec(@)]
    IN  IF h1.cb[b].ref_count_ = 0
        THEN UNION {DeleteIfUnobserved(h2, b) : h2 \in NodeOnZeroReferences(h1, b)}
        ELSE {h1}

\* the SharedPtr s can be dereferenced: s->next and s->self are members of the
\* payload of its block
HoldsNode(s) ==
    /\ sp[s].alive
    /\ sp[s].control_block_ # nullptr
    /\ sp[s].data_ptr_ # nullptr

\* MakeShared<Node>()
NodeMakeShared(s) ==
    /\ NewShared(s)
    /\ \E control_block \in FreeAddrs(cb) :
           /\ cb' = [cb EXCEPT ![control_block] = NewObjectControlBlock(control_block)]
           /\ sp' = [sp EXCEPT ![s] = SharedObj(GetDataPtr(control_block), control_block)]
           /\ member' = [member EXCEPT ![control_block] = NewMembers]
    /\ op' = Call("NodeMakeShared", "void")
    /\ UNCHANGED <<wp, ub>>

\* SharedPtr<Node>(new Node)
NodeFromRaw(s, ptr) ==
    /\ NewShared(s)
    /\ ptr \in RawArgs \ {nullptr}
    /\ \E control_block \in FreeAddrs(cb) :
           /\ cb' = [cb EXCEPT ![control_block] = NewPtrControlBlock(ptr)]
           /\ sp' = [sp EXCEPT ![s] = SharedObj(ptr, control_block)]
           /\ member' = [member EXCEPT ![control_block] = NewMembers]
    /\ op' = Call("NodeFromRaw", "void")
    /\ UNCHANGED <<wp, ub>>

\* ~SharedPtr() of a handle to a Node
NodeDestroy(s) ==
    /\ sp[s].alive
    /\ \E h \in NodeReleaseStrong(Heap(cb, member, ub), sp[s].control_block_) :
           /\ cb' = h.cb
           /\ member' = h.member
           /\ ub' = h.ub
    /\ sp' = [sp EXCEPT ![s] = NoShared]
    /\ op' = Call("NodeDestroy", "void")
    /\ UNCHANGED wp

\* s->self = s: WeakPtr(const SharedPtr&) makes a temporary, operator=(WeakPtr&&)
\* moves it into the member, ~WeakPtr() of the emptied temporary does nothing
NodeSetSelf(s) ==
    /\ HoldsNode(s)
    /\ LET a == sp[s].control_block_
       IN  /\ cb' = ReleaseWeak(IncrementWeak(cb, a), member[a].self.observe_cb_)
           /\ member' = [member EXCEPT ![a].self = WeakObj(sp[s].data_ptr_, a)]
    /\ op' = Call("NodeSetSelf", "void")
    /\ UNCHANGED <<sp, wp, ub>>

\* s->next = other, by operator=(const SharedPtr&) on the member
NodeSetNext(s, other) ==
    /\ HoldsNode(s)
    /\ sp[other].alive
    /\ LET a == sp[s].control_block_
       IN  \E h1 \in NodeReleaseStrong(Heap(cb, member, ub), member[a].next.control_block_) :
               LET h2 == NodeRetainStrong(h1, sp[other].control_block_)
               IN  /\ cb' = h2.cb
                   /\ member' = [h2.member EXCEPT ![a].next =
                                     SharedObj(sp[other].data_ptr_, sp[other].control_block_)]
                   /\ ub' = h2.ub
    /\ op' = Call("NodeSetNext", "void")
    /\ UNCHANGED <<sp, wp>>

\* what operator= finds in `other`, the member next of the payload of block
\* a, after it released the block of the target: the member, or, if the
\* payload was torn down by then, whatever the read of a destroyed object
\* yields
SourceRead(h, a) ==
    IF h.cb[a].zero_calls # 0 THEN AnyShared ELSE {h.member[a].next}

\* the use of `other` goes on record as undefined if the payload of block a
\* was torn down
SourceUsed(h, a) ==
    IF h.cb[a].zero_calls # 0 THEN [h EXCEPT !.ub = @ \cup {SourceUsedAfterTeardown}] ELSE h

\* s = s->next, by operator=(const SharedPtr& other): the code releases the
\* block of s, reads other afterwards and retains what it read
NodeCopyAssignNext(s) ==
    /\ HoldsNode(s)
    /\ LET a == sp[s].control_block_
       IN  \E h1 \in NodeDecrementStrong(Heap(cb, member, ub), a) :
           \E other \in SourceRead(h1, a) :
               LET h2 == NodeRetainStrong(SourceUsed(h1, a), other.control_block_)
               IN  /\ cb' = h2.cb
                   /\ member' = h2.member
                   /\ ub' = h2.ub
                   /\ sp' = [sp EXCEPT ![s] = SharedObj(other.data_ptr_, other.control_block_)]
    /\ op' = Call("NodeCopyAssignNext", "void")
    /\ UNCHANGED wp

\* s = std::move(s->next), by operator=(SharedPtr&& other): the code releases
\* the block of s, reads other and then writes null pointers into it
NodeMoveAssignNext(s) ==
    /\ HoldsNode(s)
    /\ LET a == sp[s].control_block_
       IN  \E h1 \in NodeDecrementStrong(Heap(cb, member, ub), a) :
           \E other \in SourceRead(h1, a) :
               LET h2 == SourceUsed(h1, a)
               IN  /\ cb' = h2.cb
                   /\ member' = IF h1.cb[a].zero_calls # 0
                                THEN h2.member
                                ELSE [h2.member EXCEPT ![a].next = SharedObj(nullptr, nullptr)]
                   /\ ub' = h2.ub
                   /\ sp' = [sp EXCEPT ![s] = SharedObj(other.data_ptr_, other.control_block_)]
    /\ op' = Call("NodeMoveAssignNext", "void")
    /\ UNCHANGED wp

PayloadNext ==
    \/ \E s \in SharedIds : ub = {} /\ NodeMakeShared(s)
                         /\ UNCHANGED <<rt, intrusiveVars>>
    \/ \E s \in SharedIds, ptr \in PtrArgs : ub = {} /\ NodeFromRaw(s, ptr)
                         /\ UNCHANGED <<rt, intrusiveVars>>
    \/ \E s, other \in SharedIds : ub = {} /\ SharedCopy(s, other)
                         /\ UNCHANGED <<rt, intrusiveVars, payloadVars>>
    \/ \E s \in SharedIds : ub = {} /\ NodeDestroy(s)
                         /\ UNCHANGED <<rt, intrusiveVars>>
    \/ \E s \in SharedIds : ub = {} /\ NodeSetSelf(s)
                         /\ UNCHANGED <<rt, intrusiveVars>>
    \/ \E s, other \in SharedIds : ub = {} /\ NodeSetNext(s, other)
                         /\ UNCHANGED <<rt, intrusiveVars>>
    \/ \E s \in SharedIds : ub = {} /\ NodeCopyAssignNext(s)
                         /\ UNCHANGED <<rt, intrusiveVars>>
    \/ \E s \in SharedIds : ub = {} /\ NodeMoveAssignNext(s)
                         /\ UNCHANGED <<rt, intrusiveVars>>
    \/ \E w \in WeakIds, s \in SharedIds : ub = {} /\ WeakFromShared(w, s)
                         /\ UNCHANGED <<rt, intrusiveVars, payloadVars>>
    \/ \E w \in WeakIds : ub = {} /\ WeakDestroy(w)
                         /\ UNCHANGED <<rt, intrusiveVars, payloadVars>>

PayloadSpec == Init /\ [][PayloadNext]_vars

\* ================================================================== claims
\* the live SharedPtr objects whose control_block_ is b
StrongHolders(b) == {s \in SharedIds : sp[s].alive /\ sp[s].control_block_ = b}

\* the live WeakPtr objects whose observe_cb_ is b
WeakHolders(b) == {w \in WeakIds : wp[w].alive /\ wp[w].observe_cb_ = b}

\* the calls that end with a SharedPtr giving up a strong reference
StrongReleasingCalls ==
    {"SharedDestroy", "SharedReset", "SharedResetPtr", "SharedCopyAssign", "SharedMoveAssign"}

\* the calls that end with a WeakPtr giving up a weak reference
WeakReleasingCalls == {"WeakDestroy", "WeakReset", "WeakCopyAssign", "WeakMoveAssign"}

\* C1: in every reachable state, every control block that has not been
\* released has a strong count equal to the number of live SharedPtr objects
\* holding it and a weak count equal to the number of live WeakPtr objects
\* observing it.
C1_CountingInvariant ==
    \A b \in BlockIds :
        cb[b].mem = "block" =>
            /\ cb[b].ref_count_ = Cardinality(StrongHolders(b))
            /\ cb[b].weak_count_ = Cardinality(WeakHolders(b))

\* a block held by two SharedPtr objects, the second one returned by Lock(),
\* and observed by two WeakPtr objects
C1_Witness ==
    /\ op.name = "Lock"
    /\ \E b \in BlockIds :
           /\ cb[b].mem = "block"
           /\ Cardinality(StrongHolders(b)) = 2
           /\ Cardinality(WeakHolders(b)) = 2

\* C2: OnZeroReferences runs at most once on a block; a block that has not
\* been released has had it run exactly if its strong count is 0; and a step
\* in which it runs is a SharedPtr call giving up a reference that takes the
\* block's strong count from 1 to 0.
C2_TeardownOnce ==
    [][\A b \in BlockIds :
           /\ cb'[b].zero_calls <= 1
           /\ cb'[b].mem = "block" => (cb'[b].zero_calls = 1 <=> cb'[b].ref_count_ = 0)
           /\ cb'[b].zero_calls > cb[b].zero_calls =>
                  /\ op'.name \in StrongReleasingCalls
                  /\ cb[b].mem = "block"
                  /\ cb[b].ref_count_ = 1
                  /\ cb'[b].ref_count_ = 0
                  /\ cb[b].zero_calls = 0
           /\ (cb[b].mem = "block" /\ cb[b].ref_count_ > 0 /\ cb'[b].ref_count_ = 0
                  /\ cb'[b].zero_calls = cb[b].zero_calls) => FALSE]_vars

\* the last SharedPtr was destroyed and the payload of its block is torn down
C2_Witness ==
    /\ op.name = "SharedDestroy"
    /\ \A s \in SharedIds : ~sp[s].alive
    /\ \E b \in BlockIds : cb[b].zero_calls = 1 /\ cb[b].ref_count_ = 0

\* C3: `delete this` runs at most once on a block; a block that has not been
\* released has a positive strong or weak count; a step that releases a block
\* is the decrement that takes the last positive counter from 1 to 0 while
\* the other one is 0; and memory is free only through `delete this`.
C3_ReleaseOnce ==
    [][\A b \in BlockIds :
           /\ cb'[b].deletes <= 1
           /\ cb'[b].mem = "block" =>
                  /\ cb'[b].deletes = 0
                  /\ cb'[b].ref_count_ > 0 \/ cb'[b].weak_count_ > 0
           /\ cb'[b].deletes > cb[b].deletes =>
                  /\ cb[b].mem = "block"
                  /\ cb'[b].mem = "free"
                  /\ cb'[b].ref_count_ = 0
                  /\ cb'[b].weak_count_ = 0
                  /\ \/ /\ cb[b].ref_count_ = 1
                        /\ cb[b].weak_count_ = 0
                        /\ op'.name \in StrongReleasingCalls
                     \/ /\ cb[b].ref_count_ = 0
                        /\ cb[b].weak_count_ = 1
                        /\ op'.name \in WeakReleasingCalls
           /\ (cb[b].mem = "block" /\ cb'[b].mem = "free") => cb'[b].deletes = 1]_vars

\* a block whose strong count reached 0 first was released by the destructor
\* of its last WeakPtr
C3_Witness ==
    /\ op.name = "WeakDestroy"
    /\ \A s \in SharedIds : ~sp[s].alive
    /\ \A w \in WeakIds : ~wp[w].alive
    /\ \E b \in BlockIds : cb[b].deletes = 1 /\ cb[b].zero_calls = 1
    /\ \E b \in BlockIds : cb[b].deletes = 0

\* C4: a block no live SharedPtr and no live WeakPtr refers to has been
\* released, and its payload was torn down before: so once every handle is
\* destroyed, every block that was created is released.
C4_NoLeak ==
    \A b \in BlockIds :
        (StrongHolders(b) = {} /\ WeakHolders(b) = {}) =>
            /\ cb[b].mem = "free"
            /\ cb[b].zero_calls = cb[b].deletes

\* every handle is destroyed, two blocks were created and both are released
C4_Witness ==
    /\ op.name \in {"SharedDestroy", "WeakDestroy"}
    /\ \A s \in SharedIds : ~sp[s].alive
    /\ \A w \in WeakIds : ~wp[w].alive
    /\ \A b \in BlockIds : cb[b].mem = "free" /\ cb[b].deletes = 1 /\ cb[b].zero_calls = 1

\* the counters of every block but those in `touched` are as they were
OtherBlocksUnchanged(touched) == \A x \in BlockIds \ touched : cb'[x] = cb[x]

\* C5: Lock() on a WeakPtr that observes no block, or a block whose strong
\* count is 0, returns an empty SharedPtr and changes no block; on a WeakPtr
\* observing a block with strong count n > 0 it returns a SharedPtr holding
\* that block and the observed payload pointer, the block's strong count is
\* n + 1 afterwards and its weak count is unchanged.
C5_Lock ==
    [][\A w \in WeakIds, s \in SharedIds :
           (op'.name = "Lock" /\ Lock(w, s)) =>
               LET b == wp[w].observe_cb_
               IN  /\ wp' = wp
                   /\ \A x \in SharedIds \ {s} : sp'[x] = sp[x]
                   /\ IF b = nullptr \/ cb[b].ref_count_ = 0
                      THEN /\ sp'[s] = SharedObj(nullptr, nullptr)
                           /\ cb' = cb
                      ELSE /\ sp'[s] = SharedObj(wp[w].observe_data_ptr_, b)
                           /\ cb'[b].ref_count_ = cb[b].ref_count_ + 1
                           /\ cb'[b].weak_count_ = cb[b].weak_count_
                           /\ cb'[b].mem = "block"
                           /\ OtherBlocksUnchanged({b})]_vars

\* Lock() returned a second owner of a block with one owner and one observer
C5_Witness ==
    /\ op.name = "Lock"
    /\ \E b \in BlockIds, w \in WeakIds :
           /\ cb[b].mem = "block"
           /\ cb[b].ref_count_ = 2
           /\ cb[b].weak_count_ = 1
           /\ WeakHolders(b) = {w}
           /\ \A s \in SharedIds : sp[s] = SharedObj(wp[w].observe_data_ptr_, b)

\* C6: promotion succeeds exactly if the WeakPtr observes a block whose
\* strong count is > 0, and then the new SharedPtr holds the observed pair
\* and the strong count is one higher; otherwise it leaves with BadWeakPtr,
\* no block changes and no SharedPtr comes into existence.
C6_Promote ==
    [][\A s \in SharedIds, w \in WeakIds :
           (op'.name = "SharedPromote" /\ SharedPromote(s, w)) =>
               LET b == wp[w].observe_cb_
               IN  /\ wp' = wp
                   /\ \A x \in SharedIds \ {s} : sp'[x] = sp[x]
                   /\ IF b # nullptr /\ cb[b].ref_count_ > 0
                      THEN /\ op'.ret = "ok"
                           /\ sp'[s] = SharedObj(wp[w].observe_data_ptr_, b)
                           /\ cb'[b].ref_count_ = cb[b].ref_count_ + 1
                           /\ cb'[b].weak_count_ = cb[b].weak_count_
                           /\ OtherBlocksUnchanged({b})
                      ELSE /\ op'.ret = "BadWeakPtr"
                           /\ cb' = cb
                           /\ ~sp'[s].alive
                           /\ \A x \in BlockIds : StrongHolders(x)' = StrongHolders(x)]_vars

\* promotion from a WeakPtr whose block has lost its last owner left with
\* BadWeakPtr
C6_Witness ==
    /\ op.name = "SharedPromote"
    /\ op.ret = "BadWeakPtr"
    /\ \E w \in WeakIds :
           /\ wp[w].alive
           /\ wp[w].observe_cb_ # nullptr
           /\ cb[wp[w].observe_cb_].mem = "block"
           /\ cb[wp[w].observe_cb_].ref_count_ = 0
           /\ cb[wp[w].observe_cb_].zero_calls = 1

\* the strong count WeakPtr w observes is 0 (no block counts as 0)
ObservesZeroCount(w) ==
    wp[w].observe_cb_ = nullptr \/ cb[wp[w].observe_cb_].ref_count_ = 0

\* no live SharedPtr holds the block WeakPtr w observes
ObservesNoOwner(w) ==
    wp[w].observe_cb_ = nullptr \/ StrongHolders(wp[w].observe_cb_) = {}

\* C7: for every live WeakPtr, Expired() is true exactly if the handle
\* observes no block or the strong count of the observed block is 0, which
\* is exactly if no live SharedPtr holds that block; and a handle that is
\* expired and goes on observing the same block is expired after every step.
C7_Expired ==
    [][\A w \in WeakIds :
           /\ wp'[w].alive =>
                  /\ Expired(w)' <=> ObservesZeroCount(w)'
                  /\ Expired(w)' <=> ObservesNoOwner(w)'
           /\ (/\ wp[w].alive
               /\ wp[w].observe_cb_ # nullptr
               /\ Expired(w)
               /\ wp'[w].alive
               /\ wp'[w].observe_cb_ = wp[w].observe_cb_) => Expired(w)'
           /\ (op'.name = "Expired" /\ WeakExpired(w)) => (op'.ret <=> ObservesNoOwner(w))]_vars

\* Expired() returned true on a WeakPtr whose block lost its last owner
C7_Witness ==
    /\ op.name = "Expired"
    /\ op.ret = TRUE
    /\ \E w \in WeakIds :
           /\ wp[w].alive
           /\ wp[w].observe_cb_ # nullptr
           /\ cb[wp[w].observe_cb_].mem = "block"
           /\ StrongHolders(wp[w].observe_cb_) = {}
    /\ \A w \in WeakIds : wp[w].alive => wp[w].observe_cb_ # nullptr

\* the strong count of block x after a call that took `plus` references on it
\* and gave `minus` references up
CountAfter(x, plus, minus) == cb'[x].ref_count_ = cb[x].ref_count_ + plus - minus

\* C8: copy construction from a non-empty source raises the strong count of
\* the source's block by 1 and gives the new handle the source's pair; copy
\* assignment to another handle does the same and gives up one strong
\* reference on the block the target held; self-assignment changes nothing.
C8_Copy ==
    [][/\ \A s, other \in SharedIds :
              (op'.name = "SharedCopy" /\ SharedCopy(s, other)
                  /\ sp[other].control_block_ # nullptr) =>
                  LET b == sp[other].control_block_
                  IN  /\ CountAfter(b, 1, 0)
                      /\ sp'[other] = sp[other]
                      /\ sp'[s] = sp[other]
                      /\ OtherBlocksUnchanged({b})
       /\ \A s, other \in SharedIds :
              (op'.name = "SharedCopyAssign" /\ SharedCopyAssign(s, other) /\ s # other
                  /\ sp[other].control_block_ # nullptr) =>
                  LET b == sp[other].control_block_
                      old == sp[s].control_block_
                  IN  /\ sp'[other] = sp[other]
                      /\ sp'[s] = sp[other]
                      /\ CountAfter(b, 1, IF old = b THEN 1 ELSE 0)
                      /\ (old # nullptr /\ old # b) => CountAfter(old, 0, 1)
                      /\ OtherBlocksUnchanged({b, old})
       /\ \A s \in SharedIds :
              (op'.name = "SharedCopyAssign" /\ SharedCopyAssign(s, s)) =>
                  (cb' = cb /\ sp' = sp /\ wp' = wp)]_vars

\* a copy assignment made the target share the source's block and released
\* the block the target held
C8_Witness ==
    /\ op.name = "SharedCopyAssign"
    /\ \E b, old \in BlockIds :
           /\ b # old
           /\ cb[b].mem = "block"
           /\ cb[b].ref_count_ = 2
           /\ StrongHolders(b) = SharedIds
           /\ cb[old].mem = "free"
           /\ cb[old].deletes = 1

\* C9: move construction gives the new handle the source's pair, empties the
\* source and changes no block; move assignment to a target that is empty or
\* holds another block does the same for the transferred block, whose
\* counters, teardown and release are untouched.
C9_Move ==
    [][/\ \A s, other \in SharedIds :
              (op'.name = "SharedMove" /\ SharedMove(s, other)) =>
                  /\ sp'[s] = sp[other]
                  /\ sp'[other] = SharedObj(nullptr, nullptr)
                  /\ cb' = cb
                  /\ wp' = wp
       /\ \A s, other \in SharedIds :
              (op'.name = "SharedMoveAssign" /\ SharedMoveAssign(s, other) /\ s # other
                  /\ sp[s].control_block_ # sp[other].control_block_) =>
                  /\ sp'[s] = sp[other]
                  /\ sp'[other] = SharedObj(nullptr, nullptr)
                  /\ wp' = wp
                  /\ sp[other].control_block_ # nullptr =>
                         cb'[sp[other].control_block_] = cb[sp[other].control_block_]]_vars

\* a move assignment handed a block with one owner to a target that held
\* another block, which is released
C9_Witness ==
    /\ op.name = "SharedMoveAssign"
    /\ \E s, other \in SharedIds, b, old \in BlockIds :
           /\ b # old
           /\ sp[other] = SharedObj(nullptr, nullptr)
           /\ sp[s].alive
           /\ sp[s].control_block_ = b
           /\ cb[b].mem = "block"
           /\ cb[b].ref_count_ = 1
           /\ cb[b].zero_calls = 0
           /\ cb[old].mem = "free"
           /\ cb[old].deletes = 1

\* C10: the aliasing constructor gives the new handle the pointer passed in
\* and the block of `other`, raises that block's strong count by 1 and
\* creates no block; the block a live SharedPtr holds is allocated and its
\* payload is not torn down; and the destructor of a SharedPtr lowers the
\* strong count of the block it holds by 1 and touches no other block.
C10_Aliasing ==
    [][/\ \A s, other \in SharedIds, ptr \in PtrArgs :
              (op'.name = "SharedAlias" /\ SharedAlias(s, other, ptr)
                  /\ sp[other].control_block_ # nullptr) =>
                  LET b == sp[other].control_block_
                  IN  /\ Get(s)' = ptr
                      /\ sp'[s].control_block_ = b
                      /\ sp'[other] = sp[other]
                      /\ CountAfter(b, 1, 0)
                      /\ cb'[b].weak_count_ = cb[b].weak_count_
                      /\ OtherBlocksUnchanged({b})
       /\ \A s \in SharedIds :
              (sp'[s].alive /\ sp'[s].control_block_ # nullptr) =>
                  /\ cb'[sp'[s].control_block_].mem = "block"
                  /\ cb'[sp'[s].control_block_].zero_calls = 0
       /\ \A s \in SharedIds :
              (op'.name = "SharedDestroy" /\ SharedDestroy(s)
                  /\ sp[s].control_block_ # nullptr) =>
                  /\ CountAfter(sp[s].control_block_, 0, 1)
                  /\ OtherBlocksUnchanged({sp[s].control_block_})]_vars

\* the only SharedPtr left on a block is an aliasing one (its pointer is not
\* the block's payload), the original was destroyed, the payload stands
C10_Witness ==
    /\ op.name = "SharedDestroy"
    /\ \E s \in SharedIds, b \in BlockIds :
           /\ StrongHolders(b) = {s}
           /\ cb[b].mem = "block"
           /\ cb[b].kind = "Object"
           /\ sp[s].data_ptr_ # cb[b].data_ptr_
           /\ cb[b].ref_count_ = 1
           /\ cb[b].zero_calls = 0

\* the strong count of block b is one lower after the step, or, when that
\* decrement released the block and the allocation of the same call took its
\* memory, the block had one owner and no observer
DecrementedByOne(b, fresh) ==
    IF fresh = b
    THEN cb[b].ref_count_ = 1 /\ cb[b].weak_count_ = 0
    ELSE CountAfter(b, 0, 1) /\ cb'[b].weak_count_ = cb[b].weak_count_

\* C11: Reset() and Reset(ptr) on a SharedPtr that holds a block lower that
\* block's strong count by exactly 1 for every argument, also for ptr equal to
\* the pointer the handle returns from Get() and for a null ptr; afterwards
\* Reset() and Reset(null) leave the handle empty, and Reset(ptr) with a
\* non-null ptr leaves it holding a block allocated by the call, with strong
\* count 1, weak count 0 and payload ptr.
C11_Reset ==
    [][/\ \A s \in SharedIds :
              (op'.name = "SharedReset" /\ SharedReset(s)
                  /\ sp[s].control_block_ # nullptr) =>
                  /\ DecrementedByOne(sp[s].control_block_, nullptr)
                  /\ sp'[s] = SharedObj(nullptr, nullptr)
       /\ \A s \in SharedIds, ptr \in PtrArgs :
              (op'.name = "SharedResetPtr" /\ SharedResetPtr(s, ptr)
                  /\ sp[s].control_block_ # nullptr) =>
                  LET b == sp[s].control_block_
                      fresh == sp'[s].control_block_
                  IN  IF ptr = nullptr
                      THEN /\ DecrementedByOne(b, nullptr)
                           /\ sp'[s] = SharedObj(nullptr, nullptr)
                      ELSE /\ fresh # nullptr
                           /\ DecrementedByOne(b, fresh)
                           /\ fresh # b => cb[fresh].mem = "free"
                           /\ cb'[fresh] = NewPtrControlBlock(ptr)
                           /\ sp'[s] = SharedObj(ptr, fresh)]_vars

\* the calls on a WeakPtr other than Lock()
WeakCallsButLock ==
    {"WeakDefault", "WeakCopy", "WeakMove", "WeakFromShared", "WeakCopyAssign",
     "WeakMoveAssign", "WeakDestroy", "WeakReset", "WeakSwap", "WeakUseCount", "Expired"}

\* C12: constructing a WeakPtr from a SharedPtr that holds a block raises that
\* block's weak count by exactly 1 and gives the new handle the (payload,
\* block) pair of the SharedPtr; no call on a WeakPtr other than Lock()
\* changes the strong count of any block, tears a payload down or changes a
\* SharedPtr; and a block whose strong count is 0 has its payload torn down
\* however many WeakPtr objects observe it.
C12_WeakFrame ==
    [][/\ \A w \in WeakIds, s \in SharedIds :
              (op'.name = "WeakFromShared" /\ WeakFromShared(w, s)
                  /\ sp[s].control_block_ # nullptr) =>
                  LET b == sp[s].control_block_
                  IN  /\ cb'[b].weak_count_ = cb[b].weak_count_ + 1
                      /\ wp'[w] = WeakObj(sp[s].data_ptr_, b)
                      /\ \A x \in WeakIds \ {w} : wp'[x] = wp[x]
                      /\ OtherBlocksUnchanged({b})
       /\ op'.name \in WeakCallsButLock =>
              /\ sp' = sp
              /\ \A b \in BlockIds :
                     /\ cb'[b].ref_count_ = cb[b].ref_count_
                     /\ cb'[b].zero_calls = cb[b].zero_calls
       /\ \A b \in BlockIds :
              (cb'[b].mem = "block" /\ cb'[b].ref_count_ = 0) =>
                  /\ cb'[b].zero_calls = 1
                  /\ cb'[b].weak_count_ > 0]_vars

\* a WeakPtr was made from the owner of a block that now has one owner and one
\* observer, while the payload of another block, still observed by a WeakPtr,
\* is torn down
C12_Witness ==
    /\ op.name = "WeakFromShared"
    /\ \E b, old \in BlockIds :
           /\ cb[b].mem = "block"
           /\ cb[b].ref_count_ = 1
           /\ cb[b].weak_count_ = 1
           /\ cb[old].mem = "block"
           /\ cb[old].ref_count_ = 0
           /\ cb[old].weak_count_ = 1
           /\ cb[old].zero_calls = 1

\* C13: Lock() on a WeakPtr made from a SharedPtr with payload pointer x and
\* block b returns a SharedPtr whose Get() is x and whose block is b, which
\* is still allocated with its payload standing, after any calls in between
\* that left the WeakPtr alone and during which the strong count of b never
\* was 0.
C13_RoundTrip ==
    [][\A s \in SharedIds :
           (rt.w # 0 /\ op'.name = "Lock" /\ Lock(rt.w, s)) =>
               /\ sp'[s].alive
               /\ Get(s)' = rt.x
               /\ sp'[s].control_block_ = rt.b
               /\ cb'[rt.b].mem = "block"
               /\ cb'[rt.b].zero_calls = 0]_vars

\* Lock() on the WeakPtr followed, the only one on its block, returned the
\* second owner of the block after the first owner of the block was
\* destroyed; the pointer that made the round trip is an aliased one
C13_Witness ==
    /\ op.name = "Lock"
    /\ rt.w # 0
    /\ WeakHolders(rt.b) = {rt.w}
    /\ \A w \in WeakIds : wp[w].alive
    /\ \A s \in SharedIds : sp[s] = SharedObj(rt.x, rt.b)
    /\ rt.x # cb[rt.b].data_ptr_

\* where the block at address b is in its life: "Live" with a positive strong
\* count, "Expiring" with strong count 0 and a positive weak count, "Dead"
\* once released (and before the first allocation there)
Lifecycle(b) ==
    IF cb[b].mem = "free" THEN "Dead"
    ELSE IF cb[b].ref_count_ > 0 THEN "Live"
    ELSE IF cb[b].weak_count_ > 0 THEN "Expiring"
    ELSE "Neither"

\* the calls that allocate a control block
AllocatingCalls == {"SharedFromRaw", "MakeShared", "SharedResetPtr"}

\* C14: a control block is Live, Expiring or Dead; a Live block stays Live or
\* becomes Expiring or Dead; an Expiring block keeps strong count 0 and stays
\* Expiring or becomes Dead; a Dead block never changes again: no call
\* changes a counter of released memory, which only comes back as a new block
\* with strong count 1 and weak count 0 out of an allocating call.
C14_Lifecycle ==
    [][\A b \in BlockIds :
           /\ Lifecycle(b)' # "Neither"
           /\ Lifecycle(b) = "Live" => Lifecycle(b)' \in {"Live", "Expiring", "Dead"}
           /\ Lifecycle(b) = "Expiring" =>
                  /\ Lifecycle(b)' \in {"Expiring", "Dead"}
                  /\ cb'[b].ref_count_ = 0
           /\ Lifecycle(b) = "Dead" =>
                  \/ cb'[b] = cb[b]
                  \/ /\ op'.name \in AllocatingCalls
                     /\ Lifecycle(b)' = "Live"
                     /\ cb'[b].ref_count_ = 1
                     /\ cb'[b].weak_count_ = 0
                     /\ cb'[b].zero_calls = 0
                     /\ cb'[b].deletes = 0]_vars

\* Lock() on a WeakPtr whose block is Expiring returned an empty SharedPtr:
\* the block is Expiring still, and another block is Dead
C14_Witness ==
    /\ op.name = "Lock"
    /\ \A s \in SharedIds : sp[s].alive => sp[s] = SharedObj(nullptr, nullptr)
    /\ \E b, dead \in BlockIds :
           /\ Lifecycle(b) = "Expiring"
           /\ cb[b].zero_calls = 1
           /\ WeakHolders(b) = WeakIds
           /\ Lifecycle(dead) = "Dead"
           /\ cb[dead].deletes = 1

\* C15: in every reachable state, the block a live SharedPtr holds is
\* allocated and has a strong count >= 1, so UseCount() of a SharedPtr that
\* holds a block is the block's strong count and never 0, and a call of
\* UseCount() returned 0 only if some live SharedPtr holds no block.
C15_HeldBlockLive ==
    /\ \A s \in SharedIds :
           (sp[s].alive /\ sp[s].control_block_ # nullptr) =>
               /\ cb[sp[s].control_block_].mem = "block"
               /\ cb[sp[s].control_block_].ref_count_ >= 1
               /\ UseCount(s) = cb[sp[s].control_block_].ref_count_
               /\ UseCount(s) # 0
    /\ (op.name = "UseCount" /\ op.ret = 0) =>
           \E s \in SharedIds : sp[s].alive /\ sp[s].control_block_ = nullptr

\* UseCount() returned 1 while each of the two SharedPtr objects holds a
\* block of its own and a WeakPtr observes each of the two blocks
C15_Witness ==
    /\ op.name = "UseCount"
    /\ op.ret = 1
    /\ \A s \in SharedIds : sp[s].alive /\ sp[s].control_block_ # nullptr
    /\ sp[1].control_block_ # sp[2].control_block_
    /\ \A b \in BlockIds : cb[b].ref_count_ = 1 /\ cb[b].weak_count_ = 1

\* C16: operator== on two SharedPtr objects returns true exactly if their
\* payload pointers are equal, whatever blocks they hold: two handles on one
\* block with different pointers are unequal, two handles on different blocks
\* with the same pointer are equal, and two empty handles are equal; the call
\* changes nothing.
C16_Equality ==
    [][\A left, right \in SharedIds :
           (op'.name = "OperatorEq" /\ SharedEq(left, right)) =>
               /\ op'.ret = TRUE <=> sp[left].data_ptr_ = sp[right].data_ptr_
               /\ (/\ sp[left].control_block_ = sp[right].control_block_
                   /\ sp[left].data_ptr_ # sp[right].data_ptr_) => op'.ret = FALSE
               /\ (/\ sp[left].control_block_ # sp[right].control_block_
                   /\ sp[left].data_ptr_ = sp[right].data_ptr_) => op'.ret = TRUE
               /\ (/\ sp[left] = SharedObj(nullptr, nullptr)
                   /\ sp[right] = SharedObj(nullptr, nullptr)) => op'.ret = TRUE
               /\ cb' = cb /\ sp' = sp /\ wp' = wp]_vars

\* operator== returned false for two SharedPtr objects that hold the same
\* block: one of them is an aliasing handle
C16_Witness ==
    /\ op.name = "OperatorEq"
    /\ op.ret = FALSE
    /\ \E b \in BlockIds : StrongHolders(b) = SharedIds /\ cb[b].ref_count_ = 2
    /\ sp[1].data_ptr_ # sp[2].data_ptr_

\* the live IntrusivePtr objects that point at object o
Pointers(o) == {i \in IntrusiveIds : ip[i].alive /\ ip[i].data_ptr_ = o}

\* the calls that end with an IntrusivePtr giving up its object
ObjectReleasingCalls ==
    {"IntrusiveDestroy", "IntrusiveReset", "IntrusiveResetPtr", "IntrusiveCopyAssign",
     "IntrusiveMoveAssign"}

\* C17: after every IntrusivePtr call, the count_ of an object that exists is
\* the number of live IntrusivePtr objects pointing at it, and UseCount()
\* returns that number (0 on an empty IntrusivePtr); no live IntrusivePtr
\* points at a destroyed object;
\* Destroy runs at most once on an object, in a releasing call that takes
\* count_ from 1 to 0 and removes the last IntrusivePtr pointing at it.
C17_Intrusive ==
    [][/\ \A o \in ObjectIds :
              /\ obj'[o].mem = "object" => obj'[o].count_ = Cardinality(Pointers(o)')
              /\ obj'[o].mem = "free" => Pointers(o)' = {}
              /\ obj'[o].destroys <= 1
              /\ obj'[o].destroys > obj[o].destroys =>
                     /\ op'.name \in ObjectReleasingCalls
                     /\ obj[o].mem = "object"
                     /\ obj[o].count_ = 1
                     /\ obj'[o].count_ = 0
                     /\ Cardinality(Pointers(o)) = 1
              /\ (obj[o].mem = "object" /\ Pointers(o) # {} /\ Pointers(o)' = {}) =>
                     /\ obj'[o].mem = "free"
                     /\ obj'[o].destroys = 1
       /\ \A i \in IntrusiveIds :
              (op'.name = "IntrusiveUseCount" /\ IntrusiveUseCountCall(i)) =>
                  op'.ret = IF ip[i].data_ptr_ = nullptr
                            THEN 0
                            ELSE Cardinality(Pointers(ip[i].data_ptr_))]_vars

\* the destructor of the last IntrusivePtr on an object destroyed the object,
\* while two IntrusivePtr objects point at another object with count_ 2
C17_Witness ==
    /\ op.name = "IntrusiveDestroy"
    /\ \E o, other \in ObjectIds :
           /\ obj[o].mem = "free"
           /\ obj[o].destroys = 1
           /\ obj[other].mem = "object"
           /\ obj[other].count_ = 2
           /\ Cardinality(Pointers(other)) = 2

\* DecrementStrong is about to run on a block that is allocated and has a
\* strong count > 0 (or the handle holds no block and it does not run)
StrongCountPositive(s) ==
    sp[s].control_block_ # nullptr =>
        /\ cb[sp[s].control_block_].mem = "block"
        /\ cb[sp[s].control_block_].ref_count_ > 0

\* DecrementWeak is about to run on a block that is allocated and has a weak
\* count > 0
WeakCountPositive(w) ==
    wp[w].observe_cb_ # nullptr =>
        /\ cb[wp[w].observe_cb_].mem = "block"
        /\ cb[wp[w].observe_cb_].weak_count_ > 0

\* C18: every call that runs DecrementStrong runs it on an allocated block
\* whose strong count is > 0, every call that runs DecrementWeak runs it on an
\* allocated block whose weak count is > 0, and no counter ever holds the
\* value a decrement of 0 wraps to.
C18_NoUnderflow ==
    [][/\ \A b \in BlockIds :
              /\ cb'[b].ref_count_ # Dec(0)
              /\ cb'[b].weak_count_ # Dec(0)
              /\ cb'[b].ref_count_ < cb[b].ref_count_ =>
                     cb'[b].ref_count_ = cb[b].ref_count_ - 1
              /\ cb'[b].weak_count_ < cb[b].weak_count_ =>
                     cb'[b].weak_count_ = cb[b].weak_count_ - 1
       /\ \A s \in SharedIds :
              /\ (op'.name = "SharedDestroy" /\ SharedDestroy(s)) => StrongCountPositive(s)
              /\ (op'.name = "SharedReset" /\ SharedReset(s)) => StrongCountPositive(s)
              /\ \A ptr \in PtrArgs \ {sp[s].data_ptr_} :
                     (op'.name = "SharedResetPtr" /\ SharedResetPtr(s, ptr)) =>
                         StrongCountPositive(s)
              /\ \A other \in SharedIds \ {s} :
                     /\ (op'.name = "SharedCopyAssign" /\ SharedCopyAssign(s, other)) =>
                            StrongCountPositive(s)
                     /\ (op'.name = "SharedMoveAssign" /\ SharedMoveAssign(s, other)) =>
                            StrongCountPositive(s)
       /\ \A w \in WeakIds :
              /\ (op'.name = "WeakDestroy" /\ WeakDestroy(w)) => WeakCountPositive(w)
              /\ (op'.name = "WeakReset" /\ WeakReset(w)) => WeakCountPositive(w)
              /\ \A other \in WeakIds \ {w} :
                     /\ (op'.name = "WeakCopyAssign" /\ WeakCopyAssign(w, other)) =>
                            WeakCountPositive(w)
                     /\ (op'.name = "WeakMoveAssign" /\ WeakMoveAssign(w, other)) =>
                            WeakCountPositive(w)]_vars

\* both blocks went through DecrementStrong down to 0 and are released, the
\* second one by the DecrementWeak of a WeakPtr's Reset()
C18_Witness ==
    /\ op.name = "WeakReset"
    /\ \A b \in BlockIds :
           /\ cb[b].mem = "free"
           /\ cb[b].deletes = 1
           /\ cb[b].zero_calls = 1
           /\ cb[b].ref_count_ = 0
           /\ cb[b].weak_count_ = 0
    /\ \E w \in WeakIds : wp[w] = WeakObj(nullptr, nullptr)

\* C19: when the call that takes the last strong reference from a block runs
\* the teardown of a payload that owns the last weak handle on that very
\* block, the block is released exactly once, and DecrementStrong neither
\* reads weak_count_ of the block nor deletes it after the nested
\* DecrementWeak released it.
C19_ReentrantTeardown ==
    [][\A b \in BlockIds :
          (/\ cb[b].mem = "block"
           /\ member[b].self.alive
           /\ member[b].self.observe_cb_ = b
           /\ cb[b].weak_count_ = 1
           /\ cb[b].zero_calls = 0
           /\ cb'[b].zero_calls = 1)
          => /\ cb'[b].mem = "free"
             /\ cb'[b].deletes = 1
             /\ ReadOfReleasedBlock \notin ub'
             /\ DeleteOfReleasedBlock \notin ub'
      ]_vars

\* C20: when s = s->next or s = std::move(s->next) is executed on a handle s
\* that is the sole owner of its block and the member next of that block's
\* payload holds a block, the call does not use the member after the payload
\* was torn down, and afterwards s holds the pointer and the block the member
\* held, and that block is live with its payload and a strong count of at
\* least 1.
C20_AssignFromOwnPayload ==
    [][\A s \in SharedIds :
          (/\ op'.name \in {"NodeCopyAssignNext", "NodeMoveAssignNext"}
           /\ HoldsNode(s)
           /\ cb[sp[s].control_block_].ref_count_ = 1
           /\ member[sp[s].control_block_].next.control_block_ # nullptr
           /\ cb'[sp[s].control_block_].zero_calls = 1)
          => LET other == member[sp[s].control_block_].next
             IN  /\ SourceUsedAfterTeardown \notin ub'
                 /\ sp'[s].data_ptr_ = other.data_ptr_
                 /\ sp'[s].control_block_ = other.control_block_
                 /\ cb'[other.control_block_].mem = "block"
                 /\ cb'[other.control_block_].ref_count_ >= 1
                 /\ cb'[other.control_block_].zero_calls = 0
      ]_vars
====
